---- MODULE Spec2Model ----
(***************************************************************************)
(* Model of packages/python-services/src/main.py: a FastAPI application    *)
(* with three GET routes, "/", "/health" and "/api/calculate".             *)
(*                                                                         *)
(* A Python float is modelled as the rational num/den in lowest terms with *)
(* den > 0.  On the inputs of the model (integers of small magnitude)      *)
(* +, - and * are exact in binary64, and / is the correctly rounded        *)
(* quotient, which the rational in lowest terms names uniquely.  The sign  *)
(* of zero and the non-finite values inf and nan are not modelled.         *)
(*                                                                         *)
(* A Python dict is a TLA+ function from its keys to its values, None is   *)
(* the value None, and a handler either returns a dict or raises.          *)
(***************************************************************************)
EXTENDS Integers, FiniteSets

\* Largest magnitude of the query parameters a and b.
MaxNum == 2

\* The connections on which requests are in flight at the same time.
Conns == {"c1", "c2"}

VARIABLES conn

vars == <<conn>>

---------------------------------------------------------------------------
(* Python values *)

None == [type |-> "NoneType"]

Abs(n) == IF n < 0 THEN -n ELSE n

RECURSIVE GCD(_, _)
GCD(m, n) == IF n = 0 THEN m ELSE GCD(n, m % n)

\* The float n/d, d # 0, in lowest terms with a positive denominator.
Float(n, d) ==
    LET g == GCD(Abs(n), Abs(d))
        s == IF d < 0 THEN -1 ELSE 1
    IN  [type |-> "float", num |-> (s * n) \div g, den |-> (s * d) \div g]

Zero == Float(0, 1)

\* a + b
float_add(a, b) == Float(a.num * b.den + b.num * a.den, a.den * b.den)

\* Faulty variant of float_sub: the operands exchanged, b - a.
float_sub_swapped(a, b) == Float(b.num * a.den - a.num * b.den, a.den * b.den)

\* a - b
float_sub(a, b) == Float(a.num * b.den - b.num * a.den, a.den * b.den)

\* a * b
float_mul(a, b) == Float(a.num * b.num, a.den * b.den)

\* Faulty variant of float_div: the floor division a // b.
float_floordiv(a, b) ==
    IF b.num = 0
    THEN [type |-> "ZeroDivisionError"]
    ELSE LET s == IF a.den * b.num < 0 THEN -1 ELSE 1
         IN  Float((s * a.num * b.den) \div (s * a.den * b.num), 1)

\* The exception of a float division by zero.
ZeroDivisionError == [type |-> "ZeroDivisionError"]

\* a / b: the quotient, and ZeroDivisionError when b is zero.
float_div(a, b) ==
    IF b.num = 0 THEN ZeroDivisionError ELSE Float(a.num * b.den, a.den * b.num)

\* The values a query parameter declared float can take.
Floats == {Float(n, 1) : n \in -MaxNum..MaxNum}

---------------------------------------------------------------------------
(* Outcomes of a handler *)

Return(value) == [kind |-> "return", value |-> value]

Raise(exc) == [kind |-> "raise", exc |-> exc]

---------------------------------------------------------------------------
(* The handlers *)

\* Faulty variant of root: the status reports errors served on other connections.
root_degraded ==
    Return([service |-> "python-services",
            status  |-> IF \E c \in Conns :
                              /\ conn[c].pc = "done"
                              /\ conn[c].resp.status_code = 200
                              /\ "error" \in DOMAIN conn[c].resp.body
                        THEN "degraded" ELSE "operational"])

\* async def root()
root == Return([service |-> "python-services", status |-> "operational"])

\* async def health_check()
health_check == Return([status |-> "healthy", service |-> "python-services"])

\* Faulty variant of divide_entry: the division without its guard.
divide_entry_unguarded(a, b) == float_div(a, b)

\* "divide": a / b if b != 0 else None
divide_entry(a, b) == IF b # Zero THEN float_div(a, b) ELSE None

\* The dict literal of calculate, every value evaluated before the lookup.
operations(a, b) ==
    [add      |-> float_add(a, b),
     subtract |-> float_sub(a, b),
     multiply |-> float_mul(a, b),
     divide   |-> divide_entry(a, b)]

\* operations.get(operation): the value of the key, None for a missing key.
dict_get(d, key) == IF key \in DOMAIN d THEN d[key] ELSE None

\* Faulty variant of calculate: no division-by-zero branch.
calculate_no_guard(a, b, operation) ==
    LET ops    == operations(a, b)
        result == dict_get(ops, operation)
    IN  IF \E k \in DOMAIN ops : ops[k] = ZeroDivisionError
        THEN Raise(ZeroDivisionError)
        ELSE Return([a |-> a, b |-> b, operation |-> operation,
                     result |-> result])

\* Faulty variant of calculate: a falsy result is replaced by None (result or None).
calculate_falsy(a, b, operation) ==
    LET ops    == operations(a, b)
        result == dict_get(ops, operation)
    IN  IF \E k \in DOMAIN ops : ops[k] = ZeroDivisionError
        THEN Raise(ZeroDivisionError)
        ELSE IF result = None /\ operation = "divide" /\ b = Zero
             THEN Return([error |-> "Division by zero"])
             ELSE Return([a |-> a, b |-> b, operation |-> operation,
                          result |-> IF result = Zero THEN None ELSE result])

\* Faulty variant of calculate: the error branch taken for every None result with
\* b == 0, the test of the operation dropped.
calculate_any_none(a, b, operation) ==
    LET ops    == operations(a, b)
        result == dict_get(ops, operation)
    IN  IF \E k \in DOMAIN ops : ops[k] = ZeroDivisionError
        THEN Raise(ZeroDivisionError)
        ELSE IF result = None /\ b = Zero
             THEN Return([error |-> "Division by zero"])
             ELSE Return([a |-> a, b |-> b, operation |-> operation,
                          result |-> result])

\* async def calculate(a: float, b: float, operation: str = "add")
\* An exception raised while the dict literal is evaluated leaves the handler.
calculate(a, b, operation) ==
    LET ops    == operations(a, b)
        result == dict_get(ops, operation)
    IN  IF \E k \in DOMAIN ops : ops[k] = ZeroDivisionError
        THEN Raise(ZeroDivisionError)
        ELSE IF result = None /\ operation = "divide" /\ b = Zero
             THEN Return([error |-> "Division by zero"])
             ELSE Return([a |-> a, b |-> b, operation |-> operation,
                          result |-> result])

---------------------------------------------------------------------------
(* Requests *)

\* The strings sent as the operation query parameter: the four operations of
\* the dict and one string that is no key of it.
OperationStrings == {"add", "subtract", "multiply", "divide", "modulo"}

\* A query string is the dict of the parameters it gives: operation may be
\* omitted.
Queries ==
    [a : Floats, b : Floats] \cup [a : Floats, b : Floats, operation : OperationStrings]

Requests ==
    {[path |-> "/", query |-> <<>>], [path |-> "/health", query |-> <<>>]}
        \cup {[path |-> "/api/calculate", query |-> q] : q \in Queries}

\* Faulty variant of operation_param: the default is the empty string.
operation_param_empty(query) ==
    IF "operation" \in DOMAIN query THEN query.operation ELSE ""

\* The default of the signature: operation: str = "add"
operation_param(query) ==
    IF "operation" \in DOMAIN query THEN query.operation ELSE "add"

\* A handler's return value is sent with status 200; an exception that
\* leaves the handler makes the response a 500.
Response(outcome) ==
    IF outcome.kind = "return"
    THEN [status_code |-> 200, body |-> outcome.value]
    ELSE [status_code |-> 500, body |-> "Internal Server Error"]

---------------------------------------------------------------------------
(* The server *)

Idle == [pc |-> "idle"]

Init == conn = [c \in Conns |-> Idle]

\* A client sends a request on an idle connection.
Send(c, req) ==
    /\ conn[c].pc = "idle"
    /\ conn' = [conn EXCEPT ![c] = [pc |-> "pending", req |-> req]]

\* @app.get("/")
GetRoot(c) ==
    /\ conn[c].pc = "pending"
    /\ conn[c].req.path = "/"
    /\ conn' = [conn EXCEPT ![c] =
                  [pc |-> "done", req |-> conn[c].req, resp |-> Response(root)]]

\* @app.get("/health")
GetHealth(c) ==
    /\ conn[c].pc = "pending"
    /\ conn[c].req.path = "/health"
    /\ conn' = [conn EXCEPT ![c] =
                  [pc |-> "done", req |-> conn[c].req,
                   resp |-> Response(health_check)]]

\* Faulty variant of GetCalculate: the parameter b is kept in a module-level variable
\* that the latest request in flight overwrites.
GetCalculateShared(c) ==
    /\ conn[c].pc = "pending"
    /\ conn[c].req.path = "/api/calculate"
    /\ LET q      == conn[c].req.query
           others == {d \in Conns \ {c} :
                         /\ conn[d].pc = "pending"
                         /\ conn[d].req.path = "/api/calculate"}
           b      == IF others = {} THEN q.b
                     ELSE conn[CHOOSE d \in others : TRUE].req.query.b
       IN  conn' = [conn EXCEPT ![c] =
                      [pc |-> "done", req |-> conn[c].req,
                       resp |-> Response(calculate(q.a, b, operation_param(q)))]]

\* @app.get("/api/calculate")
GetCalculate(c) ==
    /\ conn[c].pc = "pending"
    /\ conn[c].req.path = "/api/calculate"
    /\ LET q == conn[c].req.query
       IN  conn' = [conn EXCEPT ![c] =
                      [pc |-> "done", req |-> conn[c].req,
                       resp |-> Response(calculate(q.a, q.b, operation_param(q)))]]

\* The client reads the response; the connection is idle again.
Receive(c) ==
    /\ conn[c].pc = "done"
    /\ conn' = [conn EXCEPT ![c] = Idle]

Next ==
    \E c \in Conns :
        \/ \E req \in Requests : Send(c, req)
        \/ GetRoot(c)
        \/ GetHealth(c)
        \/ GetCalculate(c)
        \/ Receive(c)

Spec == Init /\ [][Next]_vars

---------------------------------------------------------------------------
(* Properties *)

\* The four operations the service knows.
KnownOperations == {"add", "subtract", "multiply", "divide"}

CalculationResultKeys == {"a", "b", "operation", "result"}

\* Connection c holds the response to a calculate request.
Calculated(c) == conn[c].pc = "done" /\ conn[c].req.path = "/api/calculate"

Query(c) == conn[c].req.query

\* The operation of the request on c, "add" when the parameter is omitted.
Operation(c) ==
    IF "operation" \in DOMAIN Query(c) THEN Query(c).operation ELSE "add"

Resp(c) == conn[c].resp

\* The response on c is a 200 whose body is a CalculationResult.
IsCalculationResult(c) ==
    /\ Resp(c).status_code = 200
    /\ DOMAIN Resp(c).body = CalculationResultKeys

\* The response on c is a 200 whose body is the ErrorPayload.
IsErrorPayload(c) ==
    /\ Resp(c).status_code = 200
    /\ Resp(c).body = [error |-> "Division by zero"]

\* The rational x equals p/q, by cross-multiplication.
IsRatio(x, p, q) == x.type = "float" /\ x.num * q = p * x.den

\* C1: a calculate request with operation divide and b = 0, for any a, is
\* answered with status 200 and exactly the body {"error": "Division by
\* zero"}: no a, b, operation or result key, and no exception.
C1_DivideByZeroIsErrorPayload ==
    \A c \in Conns :
        (Calculated(c) /\ Operation(c) = "divide" /\ Query(c).b.num = 0)
            => /\ Resp(c).status_code = 200
               /\ DOMAIN Resp(c).body = {"error"}
               /\ Resp(c).body.error = "Division by zero"

C1_Witness ==
    \E c \in Conns :
        /\ Calculated(c)
        /\ Operation(c) = "divide"
        /\ Query(c).b.num = 0
        /\ Query(c).a.num # 0
        /\ IsErrorPayload(c)

\* C2: a calculate response carries a result that is not None exactly when
\* the operation is one of the four known ones and, for divide, b is not 0;
\* a result equal to 0 is a result.
C2_ResultPresentIffValid ==
    \A c \in Conns :
        Calculated(c) =>
            ((/\ Resp(c).status_code = 200
              /\ "result" \in DOMAIN Resp(c).body
              /\ Resp(c).body.result # None)
             <=> (/\ Operation(c) \in KnownOperations
                  /\ Operation(c) = "divide" => Query(c).b.num # 0))

C2_Witness ==
    \E c, d \in Conns :
        /\ Calculated(c)
        /\ Operation(c) = "add" /\ Query(c).a.num = 0 /\ Query(c).b.num = 0
        /\ IsCalculationResult(c)
        /\ Resp(c).body.result = Zero
        /\ Calculated(d)
        /\ Operation(d) = "divide" /\ Query(d).a.num = 0 /\ Query(d).b.num # 0
        /\ IsCalculationResult(d)
        /\ Resp(d).body.result = Zero

\* C3: for add, subtract and multiply the response is a CalculationResult
\* whose result is a + b, a - b and a * b, also when b = 0.
C3_ArithmeticIsExact ==
    \A c \in Conns :
        (Calculated(c) /\ Operation(c) \in {"add", "subtract", "multiply"})
            => LET a == Query(c).a
                   b == Query(c).b
                   r == Resp(c).body.result
               IN  /\ IsCalculationResult(c)
                   /\ Operation(c) = "add" =>
                        IsRatio(r, a.num * b.den + b.num * a.den, a.den * b.den)
                   /\ Operation(c) = "subtract" =>
                        IsRatio(r, a.num * b.den - b.num * a.den, a.den * b.den)
                   /\ Operation(c) = "multiply" =>
                        IsRatio(r, a.num * b.num, a.den * b.den)

C3_Witness ==
    \E c, d \in Conns :
        /\ Calculated(c) /\ Operation(c) = "subtract"
        /\ Query(c).a = Float(1, 1) /\ Query(c).b = Float(2, 1)
        /\ IsCalculationResult(c) /\ Resp(c).body.result = Float(-1, 1)
        /\ Calculated(d) /\ Operation(d) = "multiply"
        /\ Query(d).a = Float(2, 1) /\ Query(d).b = Zero
        /\ IsCalculationResult(d) /\ Resp(d).body.result = Zero

\* C4: for divide with b not 0 the response is a CalculationResult, not an
\* ErrorPayload, whose result is the quotient a / b; when b divides a the
\* result is the integer q with q * b = a.
C4_DivideIsQuotient ==
    \A c \in Conns :
        (Calculated(c) /\ Operation(c) = "divide" /\ Query(c).b.num # 0)
            => LET a == Query(c).a
                   b == Query(c).b
                   r == Resp(c).body.result
               IN  /\ IsCalculationResult(c)
                   /\ IsRatio(r, a.num * b.den, a.den * b.num)
                   /\ (a.den = 1 /\ b.den = 1 /\ a.num % Abs(b.num) = 0)
                        => (r.den = 1 /\ r.num * b.num = a.num)

C4_Witness ==
    \E c, d \in Conns :
        /\ Calculated(c) /\ Operation(c) = "divide"
        /\ Query(c).a = Float(-2, 1) /\ Query(c).b = Float(2, 1)
        /\ IsCalculationResult(c) /\ Resp(c).body.result = Float(-1, 1)
        /\ Calculated(d) /\ Operation(d) = "divide"
        /\ Query(d).a = Float(1, 1) /\ Query(d).b = Float(-2, 1)
        /\ IsCalculationResult(d) /\ Resp(d).body.result = Float(-1, 2)

\* C5: a calculate request that omits operation gets a CalculationResult with
\* operation "add" and result a + b, the same response as the request that
\* gives operation = "add" with the same a and b.
C5_OperationDefaultsToAdd ==
    \A c \in Conns :
        (Calculated(c) /\ "operation" \notin DOMAIN Query(c))
            => LET a == Query(c).a
                   b == Query(c).b
               IN  /\ IsCalculationResult(c)
                   /\ Resp(c).body.operation = "add"
                   /\ IsRatio(Resp(c).body.result,
                              a.num * b.den + b.num * a.den, a.den * b.den)
                   /\ \A d \in Conns :
                        (/\ Calculated(d)
                         /\ "operation" \in DOMAIN Query(d)
                         /\ Query(d).operation = "add"
                         /\ Query(d).a = a /\ Query(d).b = b)
                            => Resp(d) = Resp(c)

C5_Witness ==
    \E c, d \in Conns :
        /\ Calculated(c) /\ "operation" \notin DOMAIN Query(c)
        /\ Calculated(d) /\ "operation" \in DOMAIN Query(d)
        /\ Query(d).operation = "add"
        /\ Query(c).a = Float(2, 1) /\ Query(d).a = Float(2, 1)
        /\ Query(c).b = Float(-1, 1) /\ Query(d).b = Float(-1, 1)
        /\ IsCalculationResult(c) /\ Resp(c).body.result = Float(1, 1)

\* C6: in every state the service reaches, whatever was served before, the
\* response to GET / is {service: python-services, status: operational} and
\* the response to GET /health is {service: python-services, status: healthy}.
C6_StatusPayloadsAreConstant ==
    \A c \in Conns :
        conn[c].pc = "done" =>
            /\ conn[c].req.path = "/" =>
                 /\ Resp(c).status_code = 200
                 /\ Resp(c).body =
                      [service |-> "python-services", status |-> "operational"]
            /\ conn[c].req.path = "/health" =>
                 /\ Resp(c).status_code = 200
                 /\ Resp(c).body =
                      [service |-> "python-services", status |-> "healthy"]

\* A status request answered while an ErrorPayload served on the other
\* connection has not yet been read.
C6_Witness ==
    \E c, d \in Conns :
        /\ Calculated(c) /\ IsErrorPayload(c)
        /\ conn[d].pc = "done" /\ conn[d].req.path \in {"/", "/health"}
        /\ Resp(d).status_code = 200

\* The response a request gets when it is the only one served.
ServedAlone(req) ==
    CASE req.path = "/"       -> Response(root)
      [] req.path = "/health" -> Response(health_check)
      [] OTHER ->
           Response(calculate(req.query.a, req.query.b,
                              IF "operation" \in DOMAIN req.query
                              THEN req.query.operation ELSE "add"))

\* C7: in every interleaving, the step that serves a request gives it the
\* response it gets when served alone, and changes nothing of any other
\* request in flight or served.
C7_HandlersAreIsolated ==
    [][\A c \in Conns :
          (conn[c].pc = "pending" /\ conn'[c].pc = "done")
              => /\ conn'[c].req = conn[c].req
                 /\ conn'[c].resp = ServedAlone(conn[c].req)
                 /\ \A d \in Conns \ {c} : conn'[d] = conn[d]]_vars

\* Two different requests in flight at once, one of them already served.
C7_Witness ==
    \E c, d \in Conns :
        /\ Calculated(c)
        /\ conn[d].pc = "pending" /\ conn[d].req.path = "/api/calculate"
        /\ Query(d).b # Query(c).b
        /\ Resp(c) = ServedAlone(conn[c].req)

\* C9: for an operation string outside the four known ones, and any a and b,
\* the response is a 200 CalculationResult that echoes a, b and operation
\* with result None; never an ErrorPayload or an error status.
C9_UnknownOperationHasNullResult ==
    \A c \in Conns :
        (Calculated(c) /\ Operation(c) \notin KnownOperations)
            => /\ Resp(c).status_code = 200
               /\ Resp(c).body = [a |-> Query(c).a, b |-> Query(c).b,
                                  operation |-> Operation(c), result |-> None]

C9_Witness ==
    \E c, d \in Conns :
        /\ Calculated(c) /\ Operation(c) = "modulo" /\ Query(c).b.num = 0
        /\ IsCalculationResult(c) /\ Resp(c).body.result = None
        /\ Calculated(d) /\ Operation(d) = "modulo" /\ Query(d).b.num # 0
        /\ IsCalculationResult(d) /\ Resp(d).body.result = None

\* C10: the ErrorPayload is returned only for divide with b = 0; every other
\* request raises nothing and gets a CalculationResult with its own a, b and
\* operation; a response never has both an error and a result key.
C10_ErrorOnlyForDivideByZero ==
    \A c \in Conns :
        Calculated(c) =>
            /\ Resp(c).status_code = 200
            /\ DOMAIN Resp(c).body \in {{"error"}, CalculationResultKeys}
            /\ "error" \in DOMAIN Resp(c).body
                 => (Operation(c) = "divide" /\ Query(c).b.num = 0)
            /\ ~(Operation(c) = "divide" /\ Query(c).b.num = 0)
                 => /\ IsCalculationResult(c)
                    /\ Resp(c).body.a = Query(c).a
                    /\ Resp(c).body.b = Query(c).b
                    /\ Resp(c).body.operation = Operation(c)

C10_Witness ==
    \E c, d \in Conns :
        /\ Calculated(c) /\ Operation(c) = "multiply" /\ Query(c).b.num = 0
        /\ IsCalculationResult(c)
        /\ Calculated(d) /\ Operation(d) = "divide" /\ Query(d).b.num = 0
        /\ IsErrorPayload(d)

====
